---- MODULE Spec2Model ----
(***************************************************************************)
(* Model of the AIONMECH pendant firmware                                  *)
(* (src/esp32_pendant_serial_universal/esp32_pendant_serial_universal.ino, *)
(* the universal sketch, lines 1-1324; the two-button sketch appended to   *)
(* the same file repeats the handlers modelled here).                      *)
(*                                                                         *)
(* The firmware is one cooperative loop() plus the phase-A interrupt       *)
(* handler encoderISR.  The globals and function statics of the sketch are *)
(* the fields of the record fw; one iteration of loop() is the action      *)
(* Loop, which threads fw through the handlers in the order loop() calls   *)
(* them.  The environment (E-stop contact, toggle switch, encoder phases,  *)
(* host lines on the serial port) acts between iterations.                 *)
(*                                                                         *)
(* Of the LCD the model keeps what fills the screen and which panels were  *)
(* painted over it (screen), the redraw requests and the time stamps that  *)
(* limit the redraw rate; colours and pixel positions are left out.        *)
(*                                                                         *)
(* Fields of fw starting with h_ are history variables: they record what   *)
(* a handler read or emitted so that properties can refer to it; no        *)
(* handler reads them.                                                     *)
(***************************************************************************)
EXTENDS Integers, Sequences, FiniteSets, TLC

VARIABLES
  fw,               \* firmware globals and function statics
  now,              \* millis() as sampled by the next loop iteration
  loops,            \* iterations of loop() run so far
  estopContactOpen, \* the E-stop's NC contact between GPIO14 and GND is open
  estopSince,       \* millis() at which the contact took its present position
  toggleClosed,     \* the latching switch between GPIO27 and GND is closed (ON)
  button1Down,      \* push button 1 connects GPIO25 to GND
  button1Since,     \* millis() at which button 1 took its present position
  button2Down,      \* push button 2 connects GPIO4 to GND
  encoderB,         \* level of encoder phase B (GPIO33), TRUE = HIGH
  serialIn,         \* lines sent by the host and not yet read
  bridge            \* globals of the desktop bridge

vars == <<fw, now, loops, estopContactOpen, estopSince, toggleClosed, button1Down,
          button1Since, button2Down, encoderB, serialIn, bridge>>

pendant == <<fw, now, loops, estopContactOpen, estopSince, toggleClosed, button1Down,
             button1Since, button2Down, encoderB, serialIn>>

env == <<estopContactOpen, estopSince, toggleClosed, button1Down, button1Since, button2Down,
         encoderB>>

----------------------------------------------------------------------------
(* Program constants *)

HOST_TIMEOUT_MS == 3500
ESTOP_DEBOUNCE == 100
SLEEP_COUNTDOWN_TIME == 5000
ENCODER_CLAMP == 1000000
BOOT_SCREEN_MS == 1500
DEBOUNCE_DELAY == 50
LONG_PRESS_THRESHOLD == 1000
HELP_HOLD_TIME == 1500
HELP_RETRIGGER_MS == 10000
LONG_PRESS_THRESHOLD_TWO_BUTTON == 2000
HOST_POS_STALE_MS == 1200
STATUS_MIN_MS == 500
POS_REDRAW_MS == 100
STATUS_REDRAW_MS == 1000

(* Bounds of the model *)

MaxLoops == 3     \* iterations of loop() in a behaviour
MaxPending == 2   \* phase-A edges pending in encAedges between two iterations
MaxQueue == 1     \* host lines buffered between two iterations
MaxMid == 1       \* edges counted while handleEncoder is between its read and its reset
MaxPressLoops == 4 \* iterations of loop() in a behaviour that follows one button press
MaxTickLoops == 13 \* iterations of loop() in a behaviour that counts a run of ticks
MaxTicks == 10    \* edges of phase A in such a run

\* Time from the start of one iteration to the start of the next.  An
\* iteration lasts at least delay(2) plus any key-hold delay (at most 40 ms);
\* 60 ms is a busy iteration, 3500 ms stands for a stretch of iterations in
\* which no input changed and lets a heartbeat reach exactly HOST_TIMEOUT_MS.
LoopPeriods == {60, 3500}

----------------------------------------------------------------------------
(* Arithmetic of the target *)

\* unsigned long subtraction (32 bit on the ESP32): a - b modulo 2^32.  When
\* a < b the result 2^32 + (a - b) exceeds the integers of the model checker;
\* every timestamp of the model is far below 2^30, so the wrapped result is
\* larger than every value it is compared with and is represented, order
\* preserved, by ULONG_TOP + (a - b).
ULONG_TOP == 2147483647
Sub32(a, b) == IF a >= b THEN a - b ELSE ULONG_TOP + (a - b)

\* A remainder that is the whole dividend
WholeDividend(a, b) == a

\* A remainder that is always zero
NoRemainder(a, b) == 0

\* C integer division and remainder truncate toward zero
CDiv(a, b) == IF a >= 0 THEN a \div b ELSE -((-a) \div b)
CMod(a, b) == a - b * CDiv(a, b)

Abs(n) == IF n >= 0 THEN n ELSE -n

----------------------------------------------------------------------------
(* Pins.  All inputs are INPUT_PULLUP: a pin reads LOW (FALSE) while its    *)
(* switch connects it to GND and HIGH (TRUE) while the switch is open.      *)

DigitalReadEstop == estopContactOpen
DigitalReadToggle == ~toggleClosed
DigitalReadEncoderB == encoderB
DigitalReadButton1 == ~button1Down
DigitalReadButton2 == ~button2Down

----------------------------------------------------------------------------
(* Serial output.  A line is a tuple of its tokens; distances are carried   *)
(* as the jog-distance selection and the number of scaled steps.            *)

Emit(s, lines) == [s EXCEPT !.tx = @ \o lines]

StopLines(protocol) ==
  CASE protocol = "LANGMUIR" -> << <<"ESTOP:ACTIVE">>, <<"PAUSE">> >>
    [] protocol = "GRBL"     -> << <<"0x85">>, <<"!">>, <<"$X">> >>
    [] protocol = "MACH"     -> << <<"G80">>, <<"M0">> >>
    [] protocol = "LINUXCNC" -> << <<"M1">>, <<"G80">> >>

ResumeLines(protocol) ==
  IF protocol = "GRBL" THEN << <<"$X">>, <<"~">> >> ELSE << >>

sendUniversalEstopCommand(s, estopActive) ==
  IF estopActive
  THEN Emit([s EXCEPT !.systemLocked = TRUE],
            StopLines(s.currentProtocol) \o << <<"ESTOP:PRESSED">> >>)
  ELSE Emit([s EXCEPT !.systemLocked = FALSE],
            ResumeLines(s.currentProtocol) \o << <<"ESTOP:RELEASED">> >>)

----------------------------------------------------------------------------
(* Display.  screen.base is what last filled the whole screen, screen.over *)
(* the panels painted over it since; h_drawn lists what an iteration drew. *)

\* lcd.fillScreen followed by the content named
FillScreen(s, content) ==
  [s EXCEPT !.screen = [base |-> content, over |-> {}], !.h_drawn = Append(@, content)]

\* A sprite pushed to its region of the screen
PushPanel(s, panel) ==
  [s EXCEPT !.screen.over = @ \cup {panel}, !.h_drawn = Append(@, panel)]

requestFullRedraw(s) == [s EXCEPT !.needsFullRedraw = TRUE]

\* A freshness that looks at the time stamps of both frames
FreshEitherFrame(s, t) ==
  \/ Sub32(t, s.tHostWCS) <= HOST_POS_STALE_MS
  \/ Sub32(t, s.tHostMCS) <= HOST_POS_STALE_MS

hostWCSFresh(s, t) == Sub32(t, s.tHostWCS) <= HOST_POS_STALE_MS

hostMCSFresh(s, t) == Sub32(t, s.tHostMCS) <= HOST_POS_STALE_MS

\* The position the readout shows: the snapshot of the host while it is
\* fresh, the position tracked by the pendant otherwise
ShownPosition(s, t) ==
  LET showWCS == s.coordView = "WCS"
      fresh == IF showWCS THEN hostWCSFresh(s, t) ELSE hostMCSFresh(s, t)
  IN IF fresh
     THEN (IF showWCS THEN s.hostWCS ELSE s.hostMCS)
     ELSE [x |-> s.xPosition, y |-> s.yPosition, z |-> s.zPosition]

\* The readout: the three numbers, the units, the frame and its work offset
drawPositionDisplay(s, t) ==
  IF ShownPosition(s, t) = s.lastDrawn /\ ~s.needsFullRedraw
  THEN s
  ELSE PushPanel([s EXCEPT !.lastDrawn = ShownPosition(s, t),
                           !.h_posPanel = [units |-> s.useImperialUnits,
                                           view |-> s.coordView]],
                 "POSITION")

\* The centre card, and the readout below it
drawAxisDisplay(s, t) == drawPositionDisplay(PushPanel(s, "AXIS"), t)

drawConnectionStatus(s, t) ==
  IF /\ Sub32(t, s.lastStatusRedraw) < STATUS_MIN_MS
     /\ ~s.needsFullRedraw
     /\ s.lastDrawnConnected = s.softwareConnected
  THEN s
  ELSE PushPanel([s EXCEPT !.lastStatusRedraw = t,
                           !.lastDrawnConnected = s.softwareConnected,
                           !.h_statusPanel = [wcs |-> s.activeWCS,
                                              connected |-> s.softwareConnected]],
                 "STATUS")

\* drawBackground, drawStatusStaticRings, drawAxisDisplay, drawConnectionStatus
doFullRedraw(s, t) ==
  [drawConnectionStatus(drawAxisDisplay(FillScreen(s, "PANEL"), t), t)
     EXCEPT !.needsFullRedraw = FALSE]

----------------------------------------------------------------------------
(* handleEstop *)

\* A handler that arms the pendant when it samples the released level
handleEstopArming(s, raw, t) == [s EXCEPT !.hostArmed = raw, !.h_estopSample = ~raw]

handleEstop(s, raw, t) ==
  LET pressed == ~raw
      s1 == [s EXCEPT !.estopDbT = IF pressed # s.estopLast THEN t ELSE @,
                      !.h_estopSample = pressed]
  IN IF Sub32(t, s1.estopDbT) > ESTOP_DEBOUNCE
     THEN LET s2 == IF pressed # s1.estopPressed
                    THEN IF pressed
                         THEN FillScreen(
                                Emit(sendUniversalEstopCommand(
                                       [s1 EXCEPT !.estopPressed = TRUE,
                                                  !.currentEstopState = "PRESSED"], TRUE),
                                     << <<"ESTOP:EMERGENCY_STOP_ACTIVATED">> >>),
                                "ALERT")
                         ELSE doFullRedraw(
                                Emit(sendUniversalEstopCommand(
                                       [s1 EXCEPT !.estopPressed = FALSE,
                                                  !.currentEstopState = "RELEASED"], FALSE),
                                     << <<"ESTOP:EMERGENCY_STOP_RELEASED">> >>),
                                t)
                    ELSE s1
          IN [s2 EXCEPT !.estopLast = pressed]
     ELSE s1

----------------------------------------------------------------------------
(* handleToggleSwitch, handlePowerManagement (build without BATTERY_MODE) *)

handleToggleSwitch(s, raw, t) ==
  LET current == ~raw
  IN IF current # s.lastToggleState
     THEN LET s1 == [s EXCEPT !.lastToggleState = current]
          IN IF current
             THEN IF s1.currentPowerState # "ACTIVE"
                  THEN doFullRedraw(Emit([s1 EXCEPT !.currentPowerState = "ACTIVE",
                                                    !.sleepCountdown = 0],
                                         << <<"POWER:ACTIVE">> >>), t)
                  ELSE s1
             ELSE IF s1.currentPowerState = "ACTIVE"
                  THEN Emit([s1 EXCEPT !.currentPowerState = "COUNTDOWN",
                                       !.sleepCountdownStart = t,
                                       !.sleepCountdown = 5],
                            << <<"POWER:COUNTDOWN">> >>)
                  ELSE s1
     ELSE s

\* A power management that does not wait for the countdown to run out
handlePowerManagementNoWait(s, t) ==
  IF s.currentPowerState = "COUNTDOWN"
  THEN FillScreen(Emit([s EXCEPT !.currentPowerState = "SLEEP"], << <<"POWER:SLEEP">> >>),
                  "BLANK")
  ELSE s

handlePowerManagement(s, t) ==
  IF s.currentPowerState = "COUNTDOWN"
  THEN LET elapsed == Sub32(t, s.sleepCountdownStart)
           newCountdown == 5 - (elapsed \div 1000)
           s1 == IF newCountdown # s.sleepCountdown /\ newCountdown >= 0
                 THEN FillScreen([s EXCEPT !.sleepCountdown = newCountdown], "COUNTDOWN")
                 ELSE s
       IN IF elapsed >= SLEEP_COUNTDOWN_TIME
          THEN FillScreen(Emit([s1 EXCEPT !.currentPowerState = "SLEEP"],
                               << <<"POWER:SLEEP">> >>), "BLANK")
          ELSE s1
  ELSE s

----------------------------------------------------------------------------
(* Motion output *)

sendUniversalJogCommand(s, axis, positive, steps) ==
  IF s.systemLocked \/ s.currentEstopState # "RELEASED"
  THEN Emit(s, << <<"ESTOP:MOTION_BLOCKED">> >>)
  ELSE LET sign == IF positive THEN "+" ELSE "-"
           d == s.currentJogDistance
       IN CASE s.currentProtocol = "LANGMUIR" ->
                 Emit(s, << <<"JOG:", axis, sign, d, steps>>, <<"MOVE:", axis, sign, d, steps>> >>)
            [] s.currentProtocol = "GRBL" ->
                 Emit(s, << <<"$J=G91G1", axis, sign, d, steps>> >>)
            [] s.currentProtocol = "MACH" ->
                 Emit(s, << <<"G91G1", axis, sign, d, steps>> >>)
            [] s.currentProtocol = "LINUXCNC" ->
                 Emit(s, << <<"G91 G1", axis, sign, d, steps>> >>)

JogKey(axis, positive) ==
  CASE axis = "Z" -> IF positive THEN "PGUP" ELSE "PGDN"
    [] axis = "Y" -> IF positive THEN "UP" ELSE "DOWN"
    [] axis = "X" -> IF positive THEN "RIGHT" ELSE "LEFT"

\* sendKeyCommand(press); delay(hold); sendKeyCommand(release)
sendJogKeys(s, axis, positive) ==
  Emit(s, << <<"KEY:", JogKey(axis, positive), "1">>, <<"KEY:", JogKey(axis, positive), "0">> >>)

----------------------------------------------------------------------------
(* Buttons *)

NextAxis(a) == CASE a = "Z" -> "Y" [] a = "Y" -> "X" [] a = "X" -> "Z"

NextDistance(d) ==
  CASE d = "FINE" -> "SMALL" [] d = "SMALL" -> "MEDIUM"
    [] d = "MEDIUM" -> "LARGE" [] d = "LARGE" -> "FINE"

NextSpeed(v) == CASE v = "SLOW" -> "MEDIUM" [] v = "MEDIUM" -> "FAST" [] v = "FAST" -> "SLOW"

NextFeedRate(f) ==
  CASE f = "25" -> "50" [] f = "50" -> "75" [] f = "75" -> "100" [] f = "100" -> "25"

DistanceKey(d) ==
  CASE d = "FINE" -> "1" [] d = "SMALL" -> "2" [] d = "MEDIUM" -> "3" [] d = "LARGE" -> "4"

\* The release of button 1 after a press that was not consumed
button1Released(s, t) ==
  LET dur == Sub32(t, s.btn1PressTime)
  IN IF dur >= LONG_PRESS_THRESHOLD
     THEN LET d == NextDistance(s.currentJogDistance)
              s1 == Emit([s EXCEPT !.currentJogDistance = d], << <<"DISTANCE:", d>> >>)
          IN drawAxisDisplay(
               IF /\ s1.currentMachine = "CUTCONTROL"
                  /\ s1.hostArmed
                  /\ Sub32(t, s1.lastHostPing) <= HOST_TIMEOUT_MS
                  /\ s1.hostMotionState = "IDLE"
               THEN Emit(s1, << <<"KEY:", DistanceKey(d), "1">> >>)
               ELSE s1, t)
     ELSE LET a == NextAxis(s.currentAxis)
          IN drawAxisDisplay(Emit([s EXCEPT !.currentAxis = a], << <<"AXIS:", a>> >>), t)

\* A handler that takes every sample for a settled one
handleButton1Unsettled(s, raw, t) ==
  LET down == ~raw
  IN IF down /\ ~s.button1Pressed
     THEN [s EXCEPT !.button1Pressed = TRUE, !.button1Processed = FALSE, !.btn1PressTime = t]
     ELSE IF ~down /\ s.button1Pressed
     THEN [button1Released([s EXCEPT !.button1Pressed = FALSE], t)
             EXCEPT !.button1Processed = TRUE]
     ELSE s

handleButton1(s, raw, t) ==
  LET down == ~raw
      s1 == [s EXCEPT !.btn1DbT = IF down # s.btn1Last THEN t ELSE @]
  IN IF Sub32(t, s1.btn1DbT) > DEBOUNCE_DELAY
     THEN LET s2 == IF down /\ ~s1.button1Pressed
                    THEN [s1 EXCEPT !.button1Pressed = TRUE,
                                    !.button1Processed = FALSE,
                                    !.btn1PressTime = t]
                    ELSE IF ~down /\ s1.button1Pressed
                    THEN IF ~s1.button1Processed
                         THEN [button1Released([s1 EXCEPT !.button1Pressed = FALSE], t)
                                 EXCEPT !.button1Processed = TRUE]
                         ELSE [s1 EXCEPT !.button1Pressed = FALSE]
                    ELSE s1
          IN [s2 EXCEPT !.btn1Last = down]
     ELSE s1

\* The release of button 2 after a press that was not consumed
button2Released(s, t) ==
  LET dur == Sub32(t, s.btn2PressTime)
  IN IF dur >= LONG_PRESS_THRESHOLD
     THEN IF ~s.viewLockedByHost
          THEN LET v == IF s.coordView = "WCS" THEN "MCS" ELSE "WCS"
               IN requestFullRedraw(
                    Emit([s EXCEPT !.coordView = v], << <<"COORD:", "VIEW,", v>> >>))
          ELSE s
     ELSE IF s.currentMachine = "CUTCONTROL"
          THEN LET f == NextFeedRate(s.currentFeedRate)
               IN drawAxisDisplay(
                    Emit([s EXCEPT !.currentFeedRate = f], << <<"FEEDRATE:", f>> >>), t)
          ELSE LET v == NextSpeed(s.currentSpeed)
               IN drawAxisDisplay(Emit([s EXCEPT !.currentSpeed = v], << <<"SPEED:", v>> >>), t)

handleButton2(s, raw, t) ==
  LET down == ~raw
      s1 == [s EXCEPT !.btn2DbT = IF down # s.btn2Last THEN t ELSE @]
  IN IF Sub32(t, s1.btn2DbT) > DEBOUNCE_DELAY
     THEN LET s2 == IF down /\ ~s1.button2Pressed
                    THEN [s1 EXCEPT !.button2Pressed = TRUE,
                                    !.button2Processed = FALSE,
                                    !.btn2PressTime = t]
                    ELSE IF ~down /\ s1.button2Pressed
                    THEN IF ~s1.button2Processed
                         THEN [button2Released([s1 EXCEPT !.button2Pressed = FALSE], t)
                                 EXCEPT !.button2Processed = TRUE]
                         ELSE [s1 EXCEPT !.button2Pressed = FALSE]
                    ELSE s1
          IN [s2 EXCEPT !.btn2Last = down]
     ELSE s1

handleBothButtons(s, raw1, raw2, t) ==
  IF ~raw1 /\ ~raw2
  THEN IF ~s.bothButtonsHeld
       THEN [s EXCEPT !.bothButtonsHeld = TRUE, !.bothButtonsTime = t, !.h_helpToggles = 0]
       ELSE IF Sub32(t, s.bothButtonsTime) >= HELP_HOLD_TIME
       THEN LET s1 == [s EXCEPT !.currentViewMode = IF @ = "NORMAL" THEN "HELP" ELSE "NORMAL",
                                !.button1Processed = TRUE,
                                !.button2Processed = TRUE,
                                !.bothButtonsTime = t + HELP_RETRIGGER_MS,
                                !.h_helpToggles = @ + 1]
            IN IF s.currentViewMode = "NORMAL"
               THEN FillScreen(s1, "HELP")
               ELSE requestFullRedraw(s1)
       ELSE s
  ELSE [s EXCEPT !.bothButtonsHeld = FALSE, !.h_helpToggles = 0]

----------------------------------------------------------------------------
(* Encoder *)

\* A gate that does not look at the age of the heartbeat
GateWithoutHeartbeat(s, t) ==
  /\ s.hostArmed
  /\ s.hostMotionState = "IDLE"
  /\ s.currentEstopState = "RELEASED"
  /\ ~s.systemLocked

\* A gate that asks for arming alone
GateArmedOnly(s, t) == s.hostArmed

\* The safety gate of handleEncoder: armed + heartbeat + machine idle
MotionGateOpen(s, t) ==
  /\ s.hostArmed
  /\ Sub32(t, s.lastHostPing) <= HOST_TIMEOUT_MS
  /\ s.hostMotionState = "IDLE"

Clamp(p) ==
  IF p > ENCODER_CLAMP THEN ENCODER_CLAMP
  ELSE IF p < -ENCODER_CLAMP THEN -ENCODER_CLAMP ELSE p

NoEncoderCall == [called |-> FALSE]

\* What a call of handleEncoder that consumed edges saw and did: the inputs
\* of its safety gate, the scaled movement it derived, whether it went on to
\* emit, and the remainder it left behind
Returned(s, t, scaledMovement, emitted) ==
  [s EXCEPT !.h_enc =
     [ called |-> TRUE,
       scaledMovement |-> scaledMovement,
       emitted |-> emitted,
       hostArmed |-> s.hostArmed,
       pingAge |-> Sub32(t, s.lastHostPing),
       hostMotionState |-> s.hostMotionState,
       currentEstopState |-> s.currentEstopState,
       systemLocked |-> s.systemLocked,
       gateOpen |-> MotionGateOpen(s, t),
       remainder |-> s.scaledEncoderPosition ]]

\* Jog distance of the selection.  A float is carried as the integer number
\* of ten-thousandths it holds.
getJogDistanceValue(s) ==
  LET d == s.currentJogDistance
      fc == s.currentMachine = "FIRECONTROL"
  IN IF s.useImperialUnits
     THEN IF fc
          THEN CASE d = "FINE" -> 5 [] d = "SMALL" -> 10 [] d = "MEDIUM" -> 100
                 [] d = "LARGE" -> 1000
          ELSE CASE d = "FINE" -> 40 [] d = "SMALL" -> 390 [] d = "MEDIUM" -> 3940
                 [] d = "LARGE" -> 39370
     ELSE IF fc
          THEN CASE d = "FINE" -> 125 [] d = "SMALL" -> 250 [] d = "MEDIUM" -> 2500
                 [] d = "LARGE" -> 25000
          ELSE CASE d = "FINE" -> 1000 [] d = "SMALL" -> 10000 [] d = "MEDIUM" -> 100000
                 [] d = "LARGE" -> 1000000

updatePositionTracking(s, movement) ==
  CASE s.currentAxis = "X" -> [s EXCEPT !.xPosition = @ + movement]
    [] s.currentAxis = "Y" -> [s EXCEPT !.yPosition = @ + movement]
    [] s.currentAxis = "Z" -> [s EXCEPT !.zPosition = @ + movement]

\* The tail of handleEncoder, from the safety gate on
jogOrDiscard(s, t, scaledMovement) ==
  IF ~MotionGateOpen(s, t)
  THEN Returned([s EXCEPT !.scaledEncoderPosition = 0, !.h_gateDrop = TRUE],
                t, scaledMovement, FALSE)
  ELSE LET positive == scaledMovement > 0
           jogDistance == getJogDistanceValue(s)
           actual == (IF positive THEN jogDistance ELSE -jogDistance) * Abs(scaledMovement)
           s0 == updatePositionTracking(s, actual)
           s1 == sendUniversalJogCommand(s0, s0.currentAxis, positive, Abs(scaledMovement))
           s2 == IF s1.currentProtocol = "LANGMUIR"
                 THEN sendJogKeys(s1, s1.currentAxis, positive)
                 ELSE s1
       IN Returned([s2 EXCEPT !.h_scaledTotal = @ + scaledMovement,
                              !.h_jogCalls = @ + 1,
                              !.needsAxisRedraw = TRUE],
                   t, scaledMovement, TRUE)

\* handleEncoder; mid edges are counted by encoderISR after pulses was read
\* from encAedges and before encAedges is reset.
handleEncoder(s, rawB, t, mid) ==
  LET pulses == s.encAedges
  IN IF pulses = 0 THEN s
     ELSE
       LET dir == IF rawB THEN 1 ELSE -1
           pos == Clamp(s.encoderPosition + dir * pulses)
           rawMovement == pos - s.lastEncoderPos
           s1 == [s EXCEPT !.encAedges = 0,
                           !.encoderPosition = pos,
                           !.h_isrCounted = @ + mid,
                           !.h_consumed = @ + pulses,
                           !.h_idleConsumed = s.h_idleEdges,
                           !.h_idleEdges = 0,
                           !.h_truePos = @ + (2 * s.h_pendPlus - pulses),
                           !.h_pendPlus = 0,
                           !.h_rawTotal = @ + dir * pulses]
       IN IF rawMovement = 0 THEN Returned(s1, t, 0, FALSE)
          ELSE
            LET acc == s1.scaledEncoderPosition + rawMovement
                scaledMovement == CDiv(acc, s1.encoderScale)
                s2 == [s1 EXCEPT !.lastEncoderPos = pos,
                                 !.scaledEncoderPosition = acc]
            IN IF scaledMovement = 0
               THEN Returned(s2, t, 0, FALSE)
               ELSE jogOrDiscard(
                      [s2 EXCEPT !.scaledEncoderPosition = CMod(acc, s2.encoderScale)],
                      t, scaledMovement)

----------------------------------------------------------------------------
(* Host lines.  A line is the tuple of its tokens, each token a string; a   *)
(* token ends after ':' or ',', but the comma that ends a numeric field is  *)
(* left out of the token.                                                   *)

StartsWith(c, prefix) ==
  /\ Len(c) >= Len(prefix)
  /\ \A i \in 1..Len(prefix) : c[i] = prefix[i]

Contains(c, tok) == \E i \in 1..Len(c) : c[i] = tok

\* A conversion that reads every field as 1
ToIntOne(tok) == 1

\* String::toInt: the leading decimal number, 0 when there is none
ToInt(tok) ==
  CASE tok = "1" -> 1 [] tok = "2" -> 2 [] tok = "3" -> 3 [] tok = "4" -> 4
    [] tok = "5" -> 5 [] tok = "6" -> 6 [] tok = "7" -> 7 [] tok = "8" -> 8
    [] tok = "9" -> 9 [] tok = "10" -> 10 [] tok = "11" -> 11 [] tok = "-1" -> -1
    [] tok = "3abc" -> 3
    [] OTHER -> 0

Arg(c, i) == IF Len(c) >= i THEN c[i] ELSE ""

\* String::toFloat: the leading decimal number, 0.0 when there is none; in
\* ten-thousandths
ToFloat(tok) == ToInt(tok) * 10000

XYZ0 == [x |-> 0, y |-> 0, z |-> 0]

\* offG54 .. offG59, by the field of the OFFSET: line that names them
OffsetNames == {"G54,", "G55,", "G56,", "G57,", "G58,", "G59,"}

\* The fields X,<x>,Y,<y>,Z,<z> from token i on: found, and their values
HasXYZ(c, i) ==
  Len(c) >= i + 5 /\ c[i] = "X," /\ c[i + 2] = "Y," /\ c[i + 4] = "Z,"

ParseXYZ(c, i) ==
  [x |-> ToFloat(c[i + 1]), y |-> ToFloat(c[i + 3]), z |-> ToFloat(c[i + 5])]

Constrain(v, lo, hi) == IF v < lo THEN lo ELSE IF v > hi THEN hi ELSE v

\* The variables the numeric fields of host lines are stored in
NumericFields ==
  {"bgR", "rgbHue", "hostWCS.x", "hostMCS.x", "offG54.x", "xPosition", "encoderScale"}

NumericField(s, f) ==
  CASE f = "bgR" -> s.bgR
    [] f = "rgbHue" -> s.rgbHue
    [] f = "hostWCS.x" -> s.hostWCS.x
    [] f = "hostMCS.x" -> s.hostMCS.x
    [] f = "offG54.x" -> s.offsets["G54,"].x
    [] f = "xPosition" -> s.xPosition
    [] f = "encoderScale" -> s.encoderScale

MachineOf(mt, cur) ==
  CASE mt = "FIRECONTROL" -> "FIRECONTROL"
    [] mt = "CUTCONTROL" -> "CUTCONTROL"
    [] mt = "MACH3" -> "MACH3"
    [] mt = "MACH4" -> "MACH4"
    [] mt = "LINUXCNC" -> "LINUXCNC"
    [] mt = "UCCNC" -> "UCCNC"
    [] mt = "CARBIDE" -> "CARBIDE"
    [] mt = "UGS" -> "UGS"
    [] mt = "OPENBUILDS" -> "UGS"
    [] mt = "CNCJS" -> "UGS"
    [] mt = "MANUAL" -> "MANUAL"
    [] OTHER -> cur

ProfileNames ==
  {"FIRECONTROL", "CUTCONTROL", "MACH3", "MACH4", "LINUXCNC", "UCCNC", "CARBIDE", "UGS",
   "OPENBUILDS", "CNCJS", "MANUAL"}

\* The protocol the sketch pairs with a machine: the initial pair and the
\* pairs the auto-detection assigns
ProtocolOf(m) ==
  CASE m \in {"FIRECONTROL", "CUTCONTROL", "MANUAL"} -> "LANGMUIR"
    [] m \in {"UGS", "CARBIDE"} -> "GRBL"
    [] m \in {"MACH3", "MACH4", "UCCNC"} -> "MACH"
    [] m = "LINUXCNC" -> "LINUXCNC"

\* An auto-detection that takes any line for a GRBL response
autoDetectAnyLine(s, c) ==
  IF s.currentMachine \in {"FIRECONTROL", "CUTCONTROL", "MANUAL"}
  THEN requestFullRedraw(Emit([s EXCEPT !.currentMachine = "UGS", !.currentProtocol = "GRBL"],
            << <<"AUTO-DETECTED:", "UGS/GRBL">> >>))
  ELSE s

\* The auto-detection block at the head of the per-line processing
autoDetect(s, c) ==
  IF StartsWith(c, <<"ok">>) \/ StartsWith(c, <<"error:">>)
     \/ StartsWith(c, <<"ALARM:">>) \/ StartsWith(c, <<"$">>)
  THEN IF s.currentMachine \in {"FIRECONTROL", "CUTCONTROL", "MANUAL"}
       THEN requestFullRedraw(Emit([s EXCEPT !.currentMachine = "UGS", !.currentProtocol = "GRBL"],
                 << <<"AUTO-DETECTED:", "UGS/GRBL">> >>))
       ELSE s
  ELSE IF StartsWith(c, <<"Mach3">>) \/ StartsWith(c, <<"Mach4">>) \/ Contains(c, "Artsoft")
  THEN LET m == IF Contains(c, "Mach4") THEN "MACH4" ELSE "MACH3"
       IN requestFullRedraw(Emit([s EXCEPT !.currentMachine = m, !.currentProtocol = "MACH"],
               << <<"AUTO-DETECTED:", m>> >>))
  ELSE IF StartsWith(c, <<"UCCNC">>) \/ Contains(c, "cncdrive")
  THEN requestFullRedraw(Emit([s EXCEPT !.currentMachine = "UCCNC", !.currentProtocol = "MACH"],
            << <<"AUTO-DETECTED:", "UCCNC">> >>))
  ELSE IF StartsWith(c, <<"LINUXCNC">>) \/ Contains(c, "emc") \/ Contains(c, "axis")
  THEN requestFullRedraw(Emit([s EXCEPT !.currentMachine = "LINUXCNC", !.currentProtocol = "LINUXCNC"],
            << <<"AUTO-DETECTED:", "LINUXCNC">> >>))
  ELSE IF Contains(c, "Carbide") \/ Contains(c, "Shapeoko") \/ Contains(c, "Nomad")
  THEN requestFullRedraw(Emit([s EXCEPT !.currentMachine = "CARBIDE", !.currentProtocol = "GRBL"],
            << <<"AUTO-DETECTED:", "CARBIDE">> >>))
  ELSE s

\* The else-if chain of commands, in the order of the source
command(s, c, t) ==
  IF StartsWith(c, <<"LCD:", "SOLID,">>)
  THEN IF Len(c) >= 5
       THEN [s EXCEPT !.bgR = ToInt(c[3]) % 256, !.bgG = ToInt(c[4]) % 256,
                      !.bgB = ToInt(c[5]) % 256, !.useRGBWheel = FALSE,
                      !.needsFullRedraw = TRUE]
       ELSE s
  ELSE IF StartsWith(c, <<"LCD:", "WHEEL,">>)
  THEN [s EXCEPT !.rgbHue = ToFloat(Arg(c, 3)), !.useRGBWheel = TRUE,
                 !.needsFullRedraw = TRUE]
  ELSE IF StartsWith(c, <<"MACHINE:">>)
  THEN LET nm == MachineOf(Arg(c, 2), s.currentMachine)
           s1 == IF Arg(c, 2) \in ProfileNames
                 THEN [s EXCEPT !.h_explicit = [made |-> TRUE, machine |-> nm,
                                                protocol |-> s.currentProtocol]]
                 ELSE s
       IN IF nm # s.currentMachine
          THEN Emit([s1 EXCEPT !.currentMachine = nm, !.needsFullRedraw = TRUE],
                    << <<"MACHINE:", nm>> >>)
          ELSE s1
  ELSE IF StartsWith(c, <<"UNITS:">>)
  THEN LET ni == Arg(c, 2) \in {"INCHES", "IN"}
       IN IF ni # s.useImperialUnits
          THEN Emit([s EXCEPT !.useImperialUnits = ni, !.needsAxisRedraw = TRUE],
                    << <<"UNITS:", IF ni THEN "INCHES" ELSE "MM">> >>)
          ELSE s
  ELSE IF StartsWith(c, <<"SOFTWARE:">>)
  THEN LET st == Arg(c, 2) = "CONNECTED"
       IN IF st # s.softwareConnected
          THEN Emit([s EXCEPT !.softwareConnected = st, !.needsStatusRedraw = TRUE],
                    << <<"SOFTWARE:", IF st THEN "CONNECTED" ELSE "DISCONNECTED">> >>)
          ELSE s
  ELSE IF c = <<"HOST:", "HELLO">>
  THEN Emit(s, << <<"FW:">>, <<"PENDANT:", "HELLO">> >>)
  ELSE IF c = <<"ARM:", "ENABLE">>
  THEN Emit([s EXCEPT !.hostArmed = TRUE, !.lastHostPing = t], << <<"ARM:", "ENABLED">> >>)
  ELSE IF c = <<"ARM:", "DISABLE">>
  THEN Emit([s EXCEPT !.hostArmed = FALSE], << <<"ARM:", "DISABLED">> >>)
  ELSE IF c = <<"HOST:", "PING">>
  THEN Emit([s EXCEPT !.lastHostPing = t], << <<"HOST:", "PONG">> >>)
  ELSE IF StartsWith(c, <<"MOTION:", "STATE,">>)
  THEN LET st == Arg(c, 3)
           nm == IF st = "RUN" THEN "RUN" ELSE IF st = "HOLD" THEN "HOLD" ELSE "IDLE"
       IN IF nm # s.hostMotionState
          THEN Emit([s EXCEPT !.hostMotionState = nm], << <<"MOTION:", st>> >>)
          ELSE s
  ELSE IF StartsWith(c, <<"COORD:", "ACTIVE,">>)
  THEN [s EXCEPT !.activeWCS = IF Arg(c, 3) = "" THEN "G54" ELSE Arg(c, 3),
                 !.needsStatusRedraw = TRUE]
  ELSE IF StartsWith(c, <<"COORD:", "VIEW,">>)
  THEN IF Len(c) = 3 /\ c[3] \in {"WCS", "MCS"}
       THEN [s EXCEPT !.coordView = c[3], !.viewLockedByHost = TRUE,
                      !.needsAxisRedraw = TRUE, !.needsStatusRedraw = TRUE]
       ELSE [s EXCEPT !.needsAxisRedraw = TRUE, !.needsStatusRedraw = TRUE]
  ELSE IF StartsWith(c, <<"OFFSET:">>)
  THEN IF Arg(c, 2) \in OffsetNames /\ HasXYZ(c, 3)
       THEN [s EXCEPT !.offsets[c[2]] = ParseXYZ(c, 3)]
       ELSE s
  ELSE IF StartsWith(c, <<"POS:", "WCS,">>)
  THEN IF HasXYZ(c, 3)
       THEN [s EXCEPT !.hostWCS = ParseXYZ(c, 3), !.tHostWCS = t, !.needsAxisRedraw = TRUE,
                      !.h_posAt.WCS = t]
       ELSE s
  ELSE IF StartsWith(c, <<"POS:", "MCS,">>)
  THEN IF HasXYZ(c, 3)
       THEN [s EXCEPT !.hostMCS = ParseXYZ(c, 3), !.tHostMCS = t, !.needsAxisRedraw = TRUE,
                      !.h_posAt.MCS = t]
       ELSE s
  ELSE IF StartsWith(c, <<"POS:", "RESET">>)
  THEN [s EXCEPT !.xPosition = 0, !.yPosition = 0, !.zPosition = 0,
                 !.needsAxisRedraw = TRUE]
  ELSE IF c = <<"POS:", "GET">>
  THEN Emit(s, << <<"POS:X,", s.xPosition>>, <<"POS:Y,", s.yPosition>>,
                  <<"POS:Z,", s.zPosition>> >>)
  ELSE IF StartsWith(c, <<"POS:", "SET,">>)
  THEN IF Len(c) >= 5
       THEN LET val == ToFloat(c[5])
            IN CASE c[4] = "X," -> [s EXCEPT !.xPosition = val, !.needsAxisRedraw = TRUE]
                 [] c[4] = "Y," -> [s EXCEPT !.yPosition = val, !.needsAxisRedraw = TRUE]
                 [] c[4] = "Z," -> [s EXCEPT !.zPosition = val, !.needsAxisRedraw = TRUE]
                 [] OTHER -> [s EXCEPT !.needsAxisRedraw = TRUE]
       ELSE s
  ELSE IF StartsWith(c, <<"ENCODER:", "SCALE,">>)
  THEN LET sc == ToInt(Arg(c, 3))
       IN IF sc >= 1 /\ sc <= 10
          THEN Emit([s EXCEPT !.encoderScale = sc, !.scaledEncoderPosition = 0,
                              !.h_rawTotal = 0, !.h_scaledTotal = 0, !.h_jogCalls = 0,
                              !.h_gateDrop = FALSE],
                    << <<"ENCODER_SCALE_SET:", sc>> >>)
          ELSE s
  ELSE IF c = <<"MACHINE:", "ZERO">>
  THEN [s EXCEPT !.xPosition = 0, !.yPosition = 0, !.zPosition = 0,
                 !.encoderPosition = 0, !.scaledEncoderPosition = 0, !.lastEncoderPos = 0,
                 !.needsAxisRedraw = TRUE,
                 !.h_truePos = 0, !.h_rawTotal = 0, !.h_scaledTotal = 0, !.h_jogCalls = 0,
                 !.h_gateDrop = FALSE]
  ELSE IF c = <<"ENCODER:", "GET">>
  THEN Emit(s, << <<"ENCODER:SCALE,", s.encoderScale>>,
                  <<"ENCODER:POS,", s.encoderPosition>>,
                  <<"ENCODER:SCALED,", s.scaledEncoderPosition>>,
                  <<"HOST:WCS_FRESH,", hostWCSFresh(s, t)>>,
                  <<"HOST:MCS_FRESH,", hostMCSFresh(s, t)>> >>)
  ELSE IF StartsWith(c, <<"LCD:", "BRIGHTNESS,">>)
  THEN Emit(s, << <<"BRIGHTNESS:", Constrain(ToInt(Arg(c, 3)), 0, 255)>> >>)
  ELSE s

\* A line processing that stops after the auto-detection
processLineDetectOnly(s, c, t) == autoDetect(s, c)

processLine(s, c, t) == command(autoDetect(s, c), c, t)

\* while(Serial.available()) ...
RECURSIVE processSerialCommands(_, _, _)
processSerialCommands(s, q, t) ==
  IF q = << >> THEN s
  ELSE processSerialCommands(processLine(s, Head(q), t), Tail(q), t)

----------------------------------------------------------------------------
(* State after setup() *)

InitFw ==
  [ currentMachine |-> "FIRECONTROL",
    currentProtocol |-> "LANGMUIR",
    currentAxis |-> "Z",
    currentSpeed |-> "MEDIUM",
    currentJogDistance |-> "SMALL",
    currentFeedRate |-> "50",
    coordView |-> "WCS",
    viewLockedByHost |-> FALSE,
    currentViewMode |-> "NORMAL",
    button1Pressed |-> FALSE,
    button1Processed |-> FALSE,
    btn1PressTime |-> 0,
    btn1Last |-> FALSE,
    btn1DbT |-> 0,
    button2Pressed |-> FALSE,
    button2Processed |-> FALSE,
    btn2PressTime |-> 0,
    btn2Last |-> FALSE,
    btn2DbT |-> 0,
    bothButtonsHeld |-> FALSE,
    bothButtonsTime |-> 0,
    encAedges |-> 0,
    encoderPosition |-> 0,
    lastEncoderPos |-> 0,
    encoderScale |-> 1,
    scaledEncoderPosition |-> 0,
    useImperialUnits |-> FALSE,
    softwareConnected |-> FALSE,
    xPosition |-> 0,
    yPosition |-> 0,
    zPosition |-> 0,
    hostWCS |-> XYZ0,
    hostMCS |-> XYZ0,
    tHostWCS |-> 0,
    tHostMCS |-> 0,
    offsets |-> [g \in OffsetNames |-> XYZ0],
    activeWCS |-> "G54",
    bgR |-> 0,
    bgG |-> 0,
    bgB |-> 0,
    useRGBWheel |-> FALSE,
    rgbHue |-> 0,
    hostArmed |-> FALSE,
    lastHostPing |-> 0,
    hostMotionState |-> "IDLE",
    lastToggleState |-> TRUE,
    currentPowerState |-> "ACTIVE",
    sleepCountdownStart |-> 0,
    sleepCountdown |-> 0,
    currentEstopState |-> "RELEASED",
    estopPressed |-> FALSE,
    systemLocked |-> FALSE,
    estopLast |-> FALSE,
    estopDbT |-> 0,
    screen |-> [base |-> "PANEL", over |-> {"AXIS", "POSITION", "STATUS"}],
    needsFullRedraw |-> FALSE,
    needsAxisRedraw |-> FALSE,
    needsStatusRedraw |-> FALSE,
    lastStatusRedraw |-> BOOT_SCREEN_MS,
    lastPosRedraw |-> 0,
    lastUI |-> 0,
    lastDrawn |-> [x |-> 0, y |-> 0, z |-> 0],
    h_posPanel |-> [units |-> FALSE, view |-> "WCS"],   \* what the readout shows
    h_statusPanel |-> [wcs |-> "G54", connected |-> FALSE], \* what the status bar shows
    h_cleared |-> {},         \* redraw requests the last iteration cleared
    lastDrawnConnected |-> FALSE,
    tx |-> << >>,
    h_drawn |-> << >>,        \* what the last iteration drew, in order
    h_estopSample |-> FALSE,  \* the local pressed of the last handleEstop call
    h_loopAt |-> 0,           \* millis() of the last iteration
    h_estopHeld |-> FALSE,    \* that iteration found the E-stop input held
    h_armUnderEstop |-> FALSE,\* armed by an ARM:ENABLE read while it was held
    h_offFrom |-> -1,         \* millis() of the first of the unbroken run of
                              \* iterations that sampled the power switch OFF,
                              \* -1 when the last iteration sampled it ON
    h_powerWas |-> "ACTIVE",
    h_posAt |-> [WCS |-> -1, MCS |-> -1], \* millis() of the last snapshot read, -1 for none
    h_remWas |-> 0,             \* scaledEncoderPosition when the last iteration began
    h_motionWas |-> "IDLE",     \* hostMotionState when the last iteration began  \* currentPowerState when the last iteration began
    h_estopOverlay |-> FALSE, \* an iteration found it held while the help view
                              \* was shown or the sleep countdown was running
    h_armedBefore |-> FALSE,  \* so armed already when that iteration began
    h_enc |-> NoEncoderCall,  \* what handleEncoder did in the last iteration
    h_isrCounted |-> 0,       \* edges counted by encoderISR
    h_consumed |-> 0,         \* edges taken over by handleEncoder
    h_helpToggles |-> 0,      \* toggles of the view since handleBothButtons last saw a button up
    h_idleEdges |-> 0,        \* pending edges counted while handleEncoder was not run
    h_idleConsumed |-> 0,     \* of these, the ones the last iteration took over
    h_pendPlus |-> 0,         \* pending edges at which phase B was high
    h_truePos |-> 0,          \* consumed edges, each signed by B at its edge
    h_rawTotal |-> 0,         \* signed edges consumed since the scale was set
    h_scaledTotal |-> 0,      \* sum of the scaled movements jogged since then
    h_jogCalls |-> 0,         \* calls of handleEncoder that jogged since then
    h_gateDrop |-> FALSE,     \* the safety gate discarded a movement since then
    h_explicit |-> [made |-> FALSE, machine |-> "FIRECONTROL", protocol |-> "LANGMUIR"],
                              \* the pair left by the last MACHINE:<profile> line
    h_offered |-> << >>,      \* the lines buffered when the last iteration began
    h_before |-> [f \in NumericFields |-> IF f = "encoderScale" THEN 1 ELSE 0],
                              \* the numeric fields when the last iteration began
    h_read |-> << >>,         \* the lines the last iteration read
    h_viewWas |-> "WCS",      \* coordView when the last iteration began
    h_timedOut |-> FALSE,     \* the gate refused a movement for the age of the
                              \* heartbeat and no ARM:ENABLE was read since
    h_sent |-> [axis |-> 0, distance |-> 0, speed |-> 0, feedrate |-> 0,
                view |-> 0, estop |-> 0],  \* selection and E-stop lines sent so far
    h_press1 |-> [held |-> FALSE, from |-> 0, rawFrom |-> 0, n |-> 0,
                  dur |-> 0, rawDur |-> 0] ] \* button 1 as the iterations sampled it

----------------------------------------------------------------------------
(* Desktop bridge *)

\* The keys robotjs toggles for a key name of the pendant, in the order of
\* the table's entry; << >> for a name the table does not have
universalKeyMappings(key) ==
  CASE key = "LEFT" -> <<"left">>
    [] key = "RIGHT" -> <<"right">>
    [] key = "UP" -> <<"up">>
    [] key = "DOWN" -> <<"down">>
    [] key = "PGUP" -> <<"pageup">>
    [] key = "PGDN" -> <<"pagedown">>
    [] key = "SPACE" -> <<"space">>
    [] key = "TAB" -> <<"tab">>
    [] key = "ALT_R" -> <<"alt", "r">>
    [] key = "ALT_S" -> <<"alt", "s">>
    [] key = "1" -> <<"1">>
    [] key = "2" -> <<"2">>
    [] key = "3" -> <<"3">>
    [] key = "4" -> <<"4">>
    [] key = "F1" -> <<"f1">>
    [] key = "F2" -> <<"f2">>
    [] key = "F3" -> <<"f3">>
    [] key = "F4" -> <<"f4">>
    [] OTHER -> << >>

\* robot.keyToggle(k, dir): the keyboard state the operating system keeps
keyToggle(b, k, dir) ==
  [b EXCEPT !.keysDown = IF dir = "down" THEN @ \cup {k} ELSE @ \ {k}]

simulateKey(b, key, isPressed) ==
  LET mapping == universalKeyMappings(key) IN
  IF ~b.robot THEN b
  ELSE IF mapping = << >> THEN b
  ELSE IF Len(mapping) = 2
  THEN IF isPressed
       THEN [keyToggle(keyToggle(b, mapping[1], "down"), mapping[2], "down")
               EXCEPT !.pressedKeys = @ \cup {key}]
       ELSE [keyToggle(keyToggle(b, mapping[2], "up"), mapping[1], "up")
               EXCEPT !.pressedKeys = @ \ {key}]
  ELSE [keyToggle(b, mapping[1], IF isPressed THEN "down" ELSE "up")
          EXCEPT !.pressedKeys = IF isPressed THEN @ \cup {key} ELSE @ \ {key}]

\* The keys of the table's entries of a set of key names
MappedKeys(keys) ==
  UNION { {universalKeyMappings(key)[i] : i \in 1..Len(universalKeyMappings(key))}
          : key \in keys }

releaseAllPressedKeysForget(b) == [b EXCEPT !.pressedKeys = {}]

\* Every name of the set that has a table entry is toggled up and deleted
releaseAllPressedKeys(b) ==
  IF ~b.robot \/ b.pressedKeys = {} THEN b
  ELSE [b EXCEPT !.keysDown = @ \ MappedKeys(b.pressedKeys),
                 !.pressedKeys = {key \in @ : universalKeyMappings(key) = << >>}]

\* A KEY: line with two parts
handleSerialCommand(b, key, pressed) ==
  IF b.currentSoftware = "NONE" THEN b ELSE simulateKey(b, key, pressed)

clearHeartbeat(b) ==
  IF b.heartbeatInterval
  THEN [b EXCEPT !.heartbeatInterval = FALSE, !.timersRunning = @ - 1]
  ELSE b

scheduleReconnect(b) == [b EXCEPT !.reconnectTimer = TRUE]

\* The callback of serialPort.open
portOpened(b, error) ==
  IF error THEN scheduleReconnect(b)
  ELSE [b EXCEPT !.port = "open", !.isConnected = TRUE, !.reconnectTimer = FALSE,
                 !.timersRunning = IF b.heartbeatInterval THEN @ ELSE @ + 1,
                 !.heartbeatInterval = TRUE]

portClosed(b) ==
  scheduleReconnect(releaseAllPressedKeys(clearHeartbeat([b EXCEPT !.isConnected = FALSE])))

portError(b) ==
  scheduleReconnect(releaseAllPressedKeys(clearHeartbeat([b EXCEPT !.isConnected = FALSE])))

\* One run of the periodic software detection that found software sw
machineDetection(b, sw) ==
  IF sw # "NONE" /\ sw # b.currentSoftware THEN [b EXCEPT !.currentSoftware = sw]
  ELSE IF sw = "NONE" /\ b.currentSoftware # "NONE"
  THEN releaseAllPressedKeys([b EXCEPT !.currentSoftware = "NONE"])
  ELSE b

InitBridge ==
  [ started |-> FALSE,           \* the module's top level has run
    robot |-> FALSE,             \* robotjs is loaded
    port |-> "none",             \* the serial port object: none, open, closed
    isConnected |-> FALSE,
    currentSoftware |-> "NONE",
    reconnectTimer |-> FALSE,
    heartbeatInterval |-> FALSE, \* the variable holds a timer
    timersRunning |-> 0,         \* heartbeat timers set and not cleared
    pressedKeys |-> {},
    keysDown |-> {},             \* keys the operating system sees held
    h_last |-> "none",           \* the port event handled by the last step
    h_heldBefore |-> {} ]        \* keysDown when that handler began

----------------------------------------------------------------------------
Init ==
  /\ fw = InitFw
  /\ now = BOOT_SCREEN_MS
  /\ loops = 0
  /\ estopContactOpen \in BOOLEAN
  /\ estopSince = BOOT_SCREEN_MS
  /\ toggleClosed = TRUE
  /\ button1Down = FALSE
  /\ button1Since = BOOT_SCREEN_MS
  /\ button2Down = FALSE
  /\ encoderB \in BOOLEAN
  /\ serialIn = << >>
  /\ bridge = InitBridge

----------------------------------------------------------------------------
(* loop() *)

\* The handlers that run in every iteration, in order
inputHandlers(s, t) ==
  LET s0 == [s EXCEPT !.tx = << >>, !.h_drawn = << >>, !.h_enc = NoEncoderCall,
                      !.h_loopAt = t, !.h_idleConsumed = 0, !.h_cleared = {}]
      s1 == handleEstop(s0, DigitalReadEstop, t)
      s2 == handleBothButtons(s1, DigitalReadButton1, DigitalReadButton2, t)
      s3 == handleButton1(s2, DigitalReadButton1, t)
      s4 == handleButton2(s3, DigitalReadButton2, t)
      s5 == handleToggleSwitch(s4, DigitalReadToggle, t)
  IN handlePowerManagement(s5, t)

\* A loop that runs handleEncoder and processSerialCommands in every iteration
LoopAlways(s) == TRUE

\* handleEncoder and processSerialCommands run only in this case
LoopActive(s) == s.currentPowerState = "ACTIVE" /\ s.currentEstopState = "RELEASED"

\* The E-stop input has been at the level handleEstop reads as pressed
\* (pin LOW) for longer than the debounce time
EstopInputHeld == ~DigitalReadEstop /\ Sub32(now, estopSince) > ESTOP_DEBOUNCE

ArmEnableIn(q) == \E i \in 1..Len(q) : q[i] = <<"ARM:", "ENABLE">>

PingIn(q) == \E i \in 1..Len(q) : q[i] = <<"HOST:", "PING">>

ArmDisableIn(q) == \E i \in 1..Len(q) : q[i] = <<"ARM:", "DISABLE">>

\* Lines of one iteration that report a selection or the E-stop
SelectionLines(tx, first) == Cardinality({i \in 1..Len(tx) : tx[i][1] \in first})

EstopLineNames ==
  {"ESTOP:ACTIVE", "ESTOP:PRESSED", "ESTOP:RELEASED", "ESTOP:MOTION_BLOCKED",
   "ESTOP:EMERGENCY_STOP_ACTIVATED", "ESTOP:EMERGENCY_STOP_RELEASED"}

Sent(h, tx) ==
  IF tx = << >> THEN h ELSE
  [ axis     |-> h.axis + SelectionLines(tx, {"AXIS:"}),
    distance |-> h.distance + SelectionLines(tx, {"DISTANCE:"}),
    speed    |-> h.speed + SelectionLines(tx, {"SPEED:"}),
    feedrate |-> h.feedrate + SelectionLines(tx, {"FEEDRATE:"}),
    view     |-> h.view + SelectionLines(tx, {"COORD:"}),
    estop    |-> h.estop + SelectionLines(tx, EstopLineNames) ]

\* Button 1 as the iterations sampled it: a press begins with the first
\* sample that finds the input down for longer than DEBOUNCE_DELAY and ends
\* with the first sample that finds it up for longer than that.
SampledPress(h, down, since, t) ==
  IF Sub32(t, since) <= DEBOUNCE_DELAY THEN h
  ELSE IF down /\ ~h.held THEN [h EXCEPT !.held = TRUE, !.from = t, !.rawFrom = since]
  ELSE IF ~down /\ h.held
  THEN [h EXCEPT !.held = FALSE, !.n = @ + 1, !.dur = Sub32(t, h.from),
                 !.rawDur = Sub32(since, h.rawFrom)]
  ELSE h

\* The history fields after an iteration that left the firmware in s; read
\* tells whether it called handleEncoder and processSerialCommands
Recorded(s, read) ==
  [s EXCEPT
     !.h_offered = serialIn,
     !.h_before = [f \in NumericFields |-> NumericField(fw, f)],
     !.h_read = IF read THEN serialIn ELSE << >>,
     !.h_viewWas = fw.coordView,
     !.h_timedOut =
        IF read /\ ArmEnableIn(serialIn) THEN FALSE
        ELSE \/ fw.h_timedOut
             \/ /\ s.h_enc.called
                /\ s.h_enc.scaledMovement # 0
                /\ s.h_enc.hostArmed
                /\ s.h_enc.pingAge > HOST_TIMEOUT_MS,
     !.h_sent = Sent(fw.h_sent, s.tx),
     !.h_press1 = SampledPress(fw.h_press1, button1Down, button1Since, now),
     !.h_offFrom = IF ~DigitalReadToggle THEN -1
                   ELSE IF fw.h_offFrom < 0 THEN now ELSE fw.h_offFrom,
     !.h_powerWas = fw.currentPowerState,
     !.h_motionWas = fw.hostMotionState,
     !.h_remWas = fw.scaledEncoderPosition,
     !.h_estopHeld = EstopInputHeld,
     !.h_estopOverlay =
        \/ fw.h_estopOverlay
        \/ /\ EstopInputHeld
           /\ (s.currentViewMode = "HELP" \/ s.currentPowerState = "COUNTDOWN"),
     !.h_armedBefore = EstopInputHeld /\ fw.h_armUnderEstop,
     !.h_armUnderEstop =
        /\ EstopInputHeld
        /\ s.hostArmed
        /\ (fw.h_armUnderEstop \/ (read /\ ArmEnableIn(serialIn)))]

\* The redraws at the end of an active iteration
fullRedraw(s, t) ==
  IF s.needsFullRedraw
  THEN [doFullRedraw(s, t) EXCEPT !.needsAxisRedraw = FALSE, !.needsStatusRedraw = FALSE,
                                  !.h_cleared = @ \cup (IF s.needsAxisRedraw THEN {"AXIS"} ELSE {})
                                                  \cup (IF s.needsStatusRedraw THEN {"STATUS"} ELSE {})]
  ELSE s

positionRedraw(s, t) ==
  IF s.needsAxisRedraw /\ Sub32(t, s.lastPosRedraw) > POS_REDRAW_MS
  THEN [drawPositionDisplay(s, t) EXCEPT !.lastPosRedraw = t, !.needsAxisRedraw = FALSE,
                                         !.h_cleared = @ \cup {"AXIS"}]
  ELSE s

statusRedraw(s, t) ==
  IF s.needsStatusRedraw \/ Sub32(t, s.lastUI) > STATUS_REDRAW_MS
  THEN [drawConnectionStatus(s, t) EXCEPT !.lastUI = t, !.needsStatusRedraw = FALSE,
                                          !.h_cleared = @ \cup (IF s.needsStatusRedraw
                                                                THEN {"STATUS"} ELSE {})]
  ELSE s

\* Skipped while the help view is shown
panelRedraw(s, t) ==
  IF s.currentViewMode = "HELP"
  THEN s
  ELSE statusRedraw(positionRedraw(fullRedraw(s, t), t), t)

\* loop() from handleEncoder on, after the input handlers left s
activeHandlers(s, rawB, t, mid, q) ==
  IF LoopActive(s)
  THEN panelRedraw(processSerialCommands(handleEncoder(s, rawB, t, mid), q, t), t)
  ELSE s

\* The rest of an iteration whose input handlers left s
restOfLoop(s, mid) ==
  /\ mid > 0 => (LoopActive(s) /\ s.encAedges > 0)
  /\ fw' = Recorded(activeHandlers(s, DigitalReadEncoderB, now, mid, serialIn),
                    LoopActive(s))
  /\ serialIn' = IF LoopActive(s) THEN << >> ELSE serialIn

\* One iteration of loop(), the next one dt ms later
Iteration(dt, mid) ==
  /\ restOfLoop(inputHandlers(fw, now), mid)
  /\ now' = now + dt
  /\ loops' = loops + 1
  /\ UNCHANGED <<env, bridge>>

Loop(dt, mid) == loops < MaxLoops /\ Iteration(dt, mid)

\* The environment below acts while an iteration of loop() is still to come;
\* what happens after the last iteration is seen by no handler.

\* A rising edge of phase A.  The edge is counted when more than 5000 us
\* have passed since the last counted edge.
encoderISR(spaced) ==
  /\ loops < MaxLoops
  /\ fw.encAedges < MaxPending
  /\ fw' = IF spaced
           THEN [fw EXCEPT !.encAedges = @ + 1,
                           !.h_isrCounted = @ + 1,
                           !.h_idleEdges = @ + (IF LoopActive(fw) THEN 0 ELSE 1),
                           !.h_pendPlus = @ + (IF encoderB THEN 1 ELSE 0)]
           ELSE fw
  /\ UNCHANGED <<now, loops, env, serialIn, bridge>>

EncoderBChange ==
  /\ loops < MaxLoops
  /\ encoderB' = ~encoderB
  /\ UNCHANGED <<fw, now, loops, estopContactOpen, estopSince, toggleClosed, button1Down,
               button1Since, button2Down, serialIn, bridge>>

EstopContactChange ==
  /\ loops < MaxLoops
  /\ estopContactOpen' = ~estopContactOpen
  /\ estopSince' = now
  /\ UNCHANGED <<fw, now, loops, toggleClosed, button1Down, button1Since, button2Down,
               encoderB, serialIn, bridge>>

ToggleSwitchChange ==
  /\ loops < MaxLoops
  /\ toggleClosed' = ~toggleClosed
  /\ UNCHANGED <<fw, now, loops, estopContactOpen, estopSince, button1Down, button1Since,
               button2Down, encoderB, serialIn, bridge>>

Button1Change ==
  /\ loops < MaxPressLoops
  /\ button1Down' = ~button1Down
  /\ button1Since' = now
  /\ UNCHANGED <<fw, now, loops, estopContactOpen, estopSince, toggleClosed, button2Down,
               encoderB, serialIn, bridge>>

Button2Change ==
  /\ loops < MaxLoops
  /\ button2Down' = ~button2Down
  /\ UNCHANGED <<fw, now, loops, estopContactOpen, estopSince, toggleClosed, button1Down,
               button1Since, encoderB, serialIn, bridge>>

HostLines ==
  { <<"ARM:", "ENABLE">>, <<"ARM:", "DISABLE">>, <<"HOST:", "PING">>,
    <<"MOTION:", "STATE,", "RUN">>, <<"MOTION:", "STATE,", "IDLE">>,
    <<"ENCODER:", "SCALE,", "2">>, <<"ok">> }

HostSend(c) ==
  /\ loops < MaxLoops
  /\ Len(serialIn) < MaxQueue
  /\ serialIn' = Append(serialIn, c)
  /\ UNCHANGED <<fw, now, loops, env, bridge>>

Next ==
  \/ \E dt \in LoopPeriods, mid \in 0..MaxMid : Loop(dt, mid)
  \/ \E spaced \in BOOLEAN : encoderISR(spaced)
  \/ EncoderBChange
  \/ EstopContactChange
  \/ ToggleSwitchChange
  \/ Button1Change
  \/ Button2Change
  \/ \E c \in HostLines : HostSend(c)

Spec == Init /\ [][Next]_vars

----------------------------------------------------------------------------
(* The E-stop input and the power switch alone *)

NextEstop ==
  \/ \E dt \in LoopPeriods : Loop(dt, 0)
  \/ EstopContactChange
  \/ ToggleSwitchChange

SpecEstop == Init /\ [][NextEstop]_vars

(* The safety gate: E-stop input, host lines and encoder edges *)

GateLines ==
  { <<"ARM:", "ENABLE">>, <<"ARM:", "DISABLE">>, <<"HOST:", "PING">>,
    <<"MOTION:", "STATE,", "RUN">>, <<"MOTION:", "STATE,", "IDLE">> }

NextGate ==
  \/ \E dt \in LoopPeriods : Loop(dt, 0)
  \/ encoderISR(TRUE)
  \/ EstopContactChange
  \/ \E c \in GateLines : HostSend(c)

SpecGate == Init /\ [][NextGate]_vars

(* E-stop held, then arming *)

NextEstopArm ==
  \/ \E dt \in LoopPeriods : Loop(dt, 0)
  \/ encoderISR(TRUE)
  \/ EstopContactChange
  \/ HostSend(<<"ARM:", "ENABLE">>)

SpecEstopArm == Init /\ [][NextEstopArm]_vars

(* Edge counting: the interrupt against the main loop *)

NextEdges ==
  \/ \E mid \in 0..MaxMid : Loop(60, mid)
  \/ \E spaced \in BOOLEAN : encoderISR(spaced)

SpecEdges == Init /\ [][NextEdges]_vars

(* Direction: phase B against the edges of phase A *)

NextDirection ==
  \/ Loop(60, 0)
  \/ encoderISR(TRUE)
  \/ EncoderBChange

SpecDirection == Init /\ [][NextDirection]_vars

(* Scaling: remainder, scale and arming.  The knob reverses between bursts *)
(* of edges, so that every pending edge has the direction handleEncoder    *)
(* reads.                                                                  *)

ScaleLines == { <<"ARM:", "ENABLE">>, <<"ENCODER:", "SCALE,", "2">> }

EncoderReverse == fw.encAedges = 0 /\ EncoderBChange

NextScale ==
  \/ Loop(60, 0)
  \/ encoderISR(TRUE)
  \/ EncoderReverse
  \/ \E c \in ScaleLines : HostSend(c)

SpecScale == Init /\ [][NextScale]_vars

(* One push button.  Iterations 20 ms apart sample a contact bounce, 940 ms *)
(* and 2100 ms stand for stretches of iterations with the button held.     *)

PressPeriods == {20, 60, 940, 2100}

PressLoop(dt) == loops < MaxPressLoops /\ Iteration(dt, 0)

NextPress ==
  \/ \E dt \in PressPeriods : PressLoop(dt)
  \/ Button1Change

SpecPress == Init /\ [][NextPress]_vars

(* Contact bounce: button 1 is never down for longer than DEBOUNCE_DELAY   *)
(* and the E-stop input never at the level handleEstop reads as pressed    *)
(* for longer than ESTOP_DEBOUNCE.                                         *)

BounceLoop(dt) ==
  /\ button1Down => Sub32(now + dt, button1Since) <= DEBOUNCE_DELAY
  /\ ~DigitalReadEstop => Sub32(now + dt, estopSince) <= ESTOP_DEBOUNCE
  /\ PressLoop(dt)

NextBounce ==
  \/ \E dt \in PressPeriods : BounceLoop(dt)
  \/ Button1Change
  \/ EstopContactChange

SpecBounce == Init /\ [][NextBounce]_vars

(* Machine profile: explicit selection and lines that look like the       *)
(* output of a controller                                                  *)

ProfileLines ==
  { <<"MACHINE:", "MACH3">>, <<"MACHINE:", "CUTCONTROL">>, <<"MACHINE:", "LINUXCNC">>,
    <<"ok">>, <<"UCCNC">>, <<"Nomad">> }

NextProfile ==
  \/ \E dt \in LoopPeriods : Loop(dt, 0)
  \/ \E c \in ProfileLines : HostSend(c)

SpecProfile == Init /\ [][NextProfile]_vars

(* Arming: the lines of the host against the E-stop input and the power   *)
(* switch                                                                  *)

ArmLines == { <<"ARM:", "ENABLE">>, <<"ARM:", "DISABLE">>, <<"HOST:", "PING">> }

NextArm ==
  \/ \E dt \in LoopPeriods : Loop(dt, 0)
  \/ EstopContactChange
  \/ ToggleSwitchChange
  \/ \E c \in ArmLines : HostSend(c)

SpecArm == Init /\ [][NextArm]_vars

(* Heartbeat: 3600 ms without a line from the host let it time out *)

HeartbeatPeriods == {60, 3600}

HeartbeatLines == { <<"ARM:", "ENABLE">>, <<"HOST:", "PING">> }

NextHeartbeat ==
  \/ \E dt \in HeartbeatPeriods : Loop(dt, 0)
  \/ encoderISR(TRUE)
  \/ \E c \in HeartbeatLines : HostSend(c)

SpecHeartbeat == Init /\ [][NextHeartbeat]_vars

(* The power switch and the heartbeat *)

NextPower ==
  \/ \E dt \in LoopPeriods : Loop(dt, 0)
  \/ ToggleSwitchChange
  \/ HostSend(<<"HOST:", "PING">>)

SpecPower == Init /\ [][NextPower]_vars

(* Lines with numeric fields, well-formed and not *)

NumericLines ==
  { <<"LCD:", "SOLID,", "5", "7", "9">>,
    <<"LCD:", "WHEEL,", "5">>,
    <<"POS:", "WCS,", "X,", "5", "Y,", "7", "Z,", "9">>,
    <<"POS:", "MCS,", "X,", "5", "Y,", "7", "Z,", "9">>,
    <<"OFFSET:", "G54,", "X,", "5", "Y,", "7", "Z,", "9">>,
    <<"POS:", "SET,", "AXIS,", "X,", "5">>,
    <<"ENCODER:", "SCALE,", "2">> }

\* A line whose first numeric field is not a number, with the variable
\* that field is stored in
MalformedLines ==
  { [line |-> <<"LCD:", "SOLID,", "abc", "7", "9">>, field |-> "bgR"],
    [line |-> <<"LCD:", "WHEEL,", "abc">>, field |-> "rgbHue"],
    [line |-> <<"POS:", "WCS,", "X,", "abc", "Y,", "7", "Z,", "9">>, field |-> "hostWCS.x"],
    [line |-> <<"POS:", "MCS,", "X,", "abc", "Y,", "7", "Z,", "9">>, field |-> "hostMCS.x"],
    [line |-> <<"OFFSET:", "G54,", "X,", "abc", "Y,", "7", "Z,", "9">>, field |-> "offG54.x"],
    [line |-> <<"POS:", "SET,", "AXIS,", "X,", "abc">>, field |-> "xPosition"],
    [line |-> <<"ENCODER:", "SCALE,", "abc">>, field |-> "encoderScale"] }

NextFields ==
  \/ \E dt \in LoopPeriods : Loop(dt, 0)
  \/ \E c \in NumericLines \cup {m.line : m \in MalformedLines} : HostSend(c)

SpecFields == Init /\ [][NextFields]_vars

(* Lines no branch of processSerialCommands matches, among lines that do *)

UnknownLines ==
  { <<"FOO">>, <<"ARM:", "ENABLED">>, <<"LCD:", "SOLID">>, <<"machine:", "MACH3">> }

KnownLines ==
  { <<"ARM:", "ENABLE">>, <<"MACHINE:", "MACH3">> }

NextUnknown ==
  \/ \E dt \in LoopPeriods : Loop(dt, 0)
  \/ \E c \in UnknownLines \cup KnownLines : HostSend(c)

SpecUnknown == Init /\ [][NextUnknown]_vars

(* The coordinate view: button 2 against the lines of the host *)

\* One line for every branch of processSerialCommands and of the
\* auto-detection, and lines that ask for the view to be unlocked
BranchLines ==
  { <<"LCD:", "SOLID,", "5", "7", "9">>, <<"LCD:", "WHEEL,", "5">>,
    <<"MACHINE:", "MACH3">>, <<"UNITS:", "INCHES">>, <<"SOFTWARE:", "CONNECTED">>,
    <<"HOST:", "HELLO">>, <<"ARM:", "ENABLE">>, <<"ARM:", "DISABLE">>, <<"HOST:", "PING">>,
    <<"MOTION:", "STATE,", "RUN">>, <<"COORD:", "ACTIVE,", "G55">>,
    <<"COORD:", "VIEW,", "WCS">>, <<"COORD:", "VIEW,", "MCS">>,
    <<"COORD:", "VIEW,", "LOCAL">>, <<"COORD:", "VIEW,", "UNLOCK">>, <<"COORD:", "UNLOCK">>,
    <<"OFFSET:", "G54,", "X,", "5", "Y,", "7", "Z,", "9">>,
    <<"POS:", "WCS,", "X,", "5", "Y,", "7", "Z,", "9">>,
    <<"POS:", "MCS,", "X,", "5", "Y,", "7", "Z,", "9">>,
    <<"POS:", "RESET">>, <<"POS:", "GET">>, <<"POS:", "SET,", "AXIS,", "X,", "5">>,
    <<"ENCODER:", "SCALE,", "2">>, <<"MACHINE:", "ZERO">>, <<"ENCODER:", "GET">>,
    <<"LCD:", "BRIGHTNESS,", "5">>,
    <<"ok">>, <<"Mach3">>, <<"UCCNC">>, <<"LINUXCNC">>, <<"Nomad">> }

ViewLines ==
  { <<"COORD:", "VIEW,", "WCS">>, <<"COORD:", "VIEW,", "MCS">>,
    <<"COORD:", "VIEW,", "UNLOCK">>, <<"COORD:", "ACTIVE,", "G55">> }

NextView ==
  \/ \E dt \in LoopPeriods : Loop(dt, 0)
  \/ Button2Change
  \/ \E c \in ViewLines : HostSend(c)

SpecView == Init /\ [][NextView]_vars

(* The help view: both push buttons *)

NextHelp ==
  \/ \E dt \in LoopPeriods : Loop(dt, 0)
  \/ Button1Change
  \/ Button2Change

SpecHelp == Init /\ [][NextHelp]_vars

(* The E-stop input against the help view and the sleep countdown *)

\* 2100 ms stand for a stretch of iterations in which no input changed
OverlayPeriods == {60, 2100}

NextOverlay ==
  \/ \E dt \in OverlayPeriods : PressLoop(dt)
  \/ EstopContactChange
  \/ ToggleSwitchChange
  \/ Button1Change
  \/ Button2Change

SpecOverlay == Init /\ [][NextOverlay]_vars

(* The power switch and the sleep countdown.  2500 ms and 5000 ms stand for *)
(* stretches of iterations in which the switch did not move.               *)

SleepPeriods == {60, 2500, 5000}

NextSleep ==
  \/ \E dt \in SleepPeriods : Loop(dt, 0)
  \/ ToggleSwitchChange

SpecSleep == Init /\ [][NextSleep]_vars

(* A run of ticks at scale 5.  The host selects CutControl, sets the scale *)
(* and arms the pendant; then the knob is turned in one direction, the     *)
(* edges falling between the iterations in any way.                        *)

TickLines ==
  { <<"MACHINE:", "CUTCONTROL">>, <<"ENCODER:", "SCALE,", "5">>, <<"ARM:", "ENABLE">> }

TicksReady(s) ==
  s.currentMachine = "CUTCONTROL" /\ s.encoderScale = 5 /\ s.hostArmed

TickLoop == loops < MaxTickLoops /\ Iteration(60, 0)

\* encoderISR, for an edge more than 5000 us after the last one
TickISR ==
  /\ loops < MaxTickLoops
  /\ TicksReady(fw)
  /\ fw.h_isrCounted < MaxTicks
  /\ fw' = [fw EXCEPT !.encAedges = @ + 1,
                      !.h_isrCounted = @ + 1,
                      !.h_idleEdges = @ + (IF LoopActive(fw) THEN 0 ELSE 1),
                      !.h_pendPlus = @ + (IF encoderB THEN 1 ELSE 0)]
  /\ UNCHANGED <<now, loops, env, serialIn, bridge>>

NextTicks ==
  \/ TickLoop
  \/ TickISR
  \/ \E c \in TickLines : HostSend(c)

SpecTicks == Init /\ [][NextTicks]_vars

\* The desktop bridge alone: its start, the serial port's events, KEY lines
\* read from the pendant and the software detection.
BridgeKeys == {"LEFT", "PGUP", "ALT_R", "ALT_S", "HOME"}

BridgeSoftware == {"NONE", "CutControl", "Mach3"}

BridgeStep(b) ==
  /\ bridge' = b
  /\ UNCHANGED pendant

\* The module's top level: robotjs loads or does not
BridgeStart(loaded) ==
  /\ ~bridge.started
  /\ BridgeStep([bridge EXCEPT !.started = TRUE, !.robot = loaded, !.reconnectTimer = TRUE])

\* connectSerial found a port and its open() called back
PortOpen(error) ==
  /\ bridge.started /\ bridge.reconnectTimer /\ bridge.port # "open"
  /\ BridgeStep([portOpened(bridge, error) EXCEPT !.h_last = "none"])

KeyLine(key, pressed) ==
  /\ bridge.port = "open"
  /\ BridgeStep([handleSerialCommand(bridge, key, pressed) EXCEPT !.h_last = "none"])

PortClose ==
  /\ bridge.port = "open"
  /\ BridgeStep([portClosed(bridge) EXCEPT !.port = "closed", !.h_last = "close",
                                           !.h_heldBefore = bridge.keysDown])

\* An error of the open port, which the port survives or not
PortError(survives) ==
  /\ bridge.port = "open"
  /\ BridgeStep([portError(bridge) EXCEPT !.port = IF survives THEN "open" ELSE "closed",
                                          !.h_last = "error",
                                          !.h_heldBefore = bridge.keysDown])

MachineDetection(sw) ==
  /\ bridge.started
  /\ BridgeStep([machineDetection(bridge, sw) EXCEPT !.h_last = "none"])

NextBridge ==
  \/ \E loaded \in BOOLEAN : BridgeStart(loaded)
  \/ \E error \in BOOLEAN : PortOpen(error)
  \/ \E key \in BridgeKeys, pressed \in BOOLEAN : KeyLine(key, pressed)
  \/ PortClose
  \/ \E survives \in BOOLEAN : PortError(survives)
  \/ \E sw \in BridgeSoftware : MachineDetection(sw)

SpecBridge == Init /\ [][NextBridge]_vars

\* The wheel turned while the pendant is switched off and on again, the host
\* having armed it.
WakeLines == { <<"ARM:", "ENABLE">> }

NextResume ==
  \/ Loop(60, 0)
  \/ encoderISR(TRUE)
  \/ ToggleSwitchChange
  \/ \E c \in WakeLines : HostSend(c)

SpecResume == Init /\ [][NextResume]_vars

(* MOTION:STATE lines, with the three state tokens and with others *)

BadStateLines ==
  { <<"MOTION:", "STATE,", "run">>, <<"MOTION:", "STATE,", "PAUSED">>,
    <<"MOTION:", "STATE,">> }

MotionStateLines ==
  { <<"MOTION:", "STATE,", "IDLE">>, <<"MOTION:", "STATE,", "RUN">>,
    <<"MOTION:", "STATE,", "HOLD">>, <<"ARM:", "ENABLE">> } \cup BadStateLines

NextMotionState ==
  \/ \E dt \in LoopPeriods : Loop(dt, 0)
  \/ encoderISR(TRUE)
  \/ \E c \in MotionStateLines : HostSend(c)

SpecMotionState == Init /\ [][NextMotionState]_vars

(* ENCODER:SCALE lines with values inside and outside 1..10 and with values *)
(* that are not numbers *)

\* Values whose leading decimal number is in 1..10
AcceptedScaleLines ==
  { <<"ENCODER:", "SCALE,", "5">>, <<"ENCODER:", "SCALE,", "10">>,
    <<"ENCODER:", "SCALE,", "3abc">> }

OutOfRangeScaleLines ==
  { <<"ENCODER:", "SCALE,", "0">>, <<"ENCODER:", "SCALE,", "11">>,
    <<"ENCODER:", "SCALE,", "-1">> }

NonNumericScaleLines ==
  { <<"ENCODER:", "SCALE,", "abc">>, <<"ENCODER:", "SCALE,">> }

RangeLines == AcceptedScaleLines \cup OutOfRangeScaleLines \cup NonNumericScaleLines

NextRange ==
  \/ Loop(60, 0)
  \/ encoderISR(TRUE)
  \/ \E c \in RangeLines : HostSend(c)

SpecRange == Init /\ [][NextRange]_vars

(* The wheel turned during the countdown and in sleep, the host having armed *)
(* the pendant.  An iteration 5000 ms after the last ends the countdown.     *)

IdlePeriods == {60, SLEEP_COUNTDOWN_TIME}

NextIdle ==
  \/ \E dt \in IdlePeriods : Loop(dt, 0)
  \/ encoderISR(TRUE)
  \/ ToggleSwitchChange
  \/ \E c \in WakeLines : HostSend(c)

SpecIdle == Init /\ [][NextIdle]_vars

(* Position snapshots of the host in both frames.  An iteration 1200 ms     *)
(* after a snapshot finds it at the staleness limit, one 1260 ms after it   *)
(* finds it stale.                                                          *)

WcsLine == <<"POS:", "WCS,", "X,", "5", "Y,", "7", "Z,", "9">>

McsLine == <<"POS:", "MCS,", "X,", "5", "Y,", "7", "Z,", "9">>

SnapshotLines ==
  { WcsLine, McsLine, <<"ENCODER:", "GET">>, <<"COORD:", "VIEW,", "MCS">> }

SnapshotPeriods == {60, HOST_POS_STALE_MS, HOST_POS_STALE_MS + 60}

NextSnapshots ==
  \/ \E dt \in SnapshotPeriods : Loop(dt, 0)
  \/ \E c \in SnapshotLines : HostSend(c)

SpecSnapshots == Init /\ [][NextSnapshots]_vars

(* Host lines that change what the readout and the status bar show *)

RedrawLines ==
  { <<"UNITS:", "INCHES">>, <<"COORD:", "VIEW,", "MCS">>, <<"COORD:", "ACTIVE,", "G55">>,
    <<"SOFTWARE:", "CONNECTED">> }

NextRedraw ==
  \/ \E dt \in LoopPeriods : Loop(dt, 0)
  \/ \E c \in RedrawLines : HostSend(c)

SpecRedraw == Init /\ [][NextRedraw]_vars

----------------------------------------------------------------------------
(* Properties *)

JogKeys == {"PGUP", "PGDN", "UP", "DOWN", "RIGHT", "LEFT"}

IsMotionLine(l) ==
  \/ l[1] \in {"JOG:", "MOVE:", "$J=G91G1", "G91G1", "G91 G1"}
  \/ l[1] = "KEY:" /\ l[2] \in JogKeys

\* The last iteration of loop() wrote a motion command to the serial port
MotionEmitted(s) == \E i \in 1..Len(s.tx) : IsMotionLine(s.tx[i])

C2_HeldEstopLatches ==
  fw.h_estopHeld => (fw.currentEstopState = "PRESSED" /\ fw.systemLocked)

\* C3: when ARM:ENABLE was read while the E-stop input was held at its
\* pressed level and the input is still held, an iteration emits no motion
\* command.
C3_EstopOverridesArming ==
  fw.h_armedBefore => ~MotionEmitted(fw)

\* C4: handleEstop reads the E-stop as pressed exactly when the NC contact is
\* open; the contact cannot move during an iteration, so after an iteration
\* and before the next event its position is the one handleEstop sampled.
C4_PressedIffContactOpen ==
  (loops > 0 /\ now > fw.h_loopAt /\ estopSince <= fw.h_loopAt) =>
    (fw.h_estopSample <=> estopContactOpen)

\* C6: when handleEncoder derives a nonzero scaled movement, the iteration
\* emits a motion command exactly if the host is armed, the heartbeat is at
\* most HOST_TIMEOUT_MS old, the host motion state is IDLE and the E-stop is
\* released, the E-stop being pressed once its input has been held at the
\* pressed level for longer than ESTOP_DEBOUNCE.
C6_TruthTable ==
  (fw.h_enc.called /\ fw.h_enc.scaledMovement # 0) =>
    (MotionEmitted(fw) <=>
       /\ fw.h_enc.hostArmed
       /\ fw.h_enc.pingAge <= HOST_TIMEOUT_MS
       /\ fw.h_enc.hostMotionState = "IDLE"
       /\ ~fw.h_estopHeld)

\* C7: a call of handleEncoder that consumed edges while the safety gate was
\* closed returned with scaledEncoderPosition = 0.
C7_UnauthorizedTicksDropped ==
  (fw.h_enc.called /\ ~fw.h_enc.gateOpen) => fw.h_enc.remainder = 0

\* C8: every edge counted by encoderISR is either still pending in encAedges
\* or was consumed by handleEncoder, once.
C8_EdgesConserved ==
  fw.h_isrCounted = fw.h_consumed + fw.encAedges

\* C9: the position is the sum of the consumed edges, each taken with the
\* direction phase B had at the moment of the edge.
C9_DirectionAtEdge ==
  fw.encoderPosition = fw.h_truePos

\* C10, as stated: with a fixed scale, the scaled movements emitted, times
\* the scale, plus the remainder equal the signed edges consumed.
C10_TicksConserved ==
  fw.h_scaledTotal * fw.encoderScale + fw.scaledEncoderPosition = fw.h_rawTotal

\* C10, amended: the same, for the sequences in which no call of
\* handleEncoder was turned away at the safety gate.
C10_TicksConservedWhileAuthorized ==
  ~fw.h_gateDrop => C10_TicksConserved

\* With scale 2, jogs were emitted on either side of a carried remainder
C10_RemainderCarried ==
  /\ ~fw.h_gateDrop
  /\ fw.encoderScale = 2
  /\ fw.scaledEncoderPosition # 0
  /\ fw.h_scaledTotal # 0
  /\ fw.h_enc.called
  /\ fw.h_enc.emitted

\* C11: when button 1 has been held for 2100 ms or longer (threshold and
\* both debounce windows) and released, and the iterations sampled that one
\* press as lasting the long-press threshold or longer, the jog distance
\* has advanced by one step, one DISTANCE: line has been sent and the axis
\* is the one selected before.
C11_LongPressAdvancesDistance ==
  ( /\ fw.h_press1.n = 1
    /\ ~fw.h_press1.held
    /\ fw.h_press1.rawDur >= LONG_PRESS_THRESHOLD_TWO_BUTTON + 2 * DEBOUNCE_DELAY
    /\ fw.h_press1.dur >= LONG_PRESS_THRESHOLD_TWO_BUTTON )
  => /\ fw.currentJogDistance = NextDistance(InitFw.currentJogDistance)
     /\ fw.h_sent.distance = 1
     /\ fw.currentAxis = InitFw.currentAxis

C13_ClassifiedByDuration ==
  (fw.h_press1.n = 1 /\ ~fw.h_press1.held)
  => IF fw.h_press1.dur >= LONG_PRESS_THRESHOLD
     THEN fw.h_sent.distance = 1 /\ fw.h_sent.axis = 0
     ELSE fw.h_sent.axis = 1 /\ fw.h_sent.distance = 0

\* C14: when the last line an iteration read was a MACHINE:<profile> line,
\* currentProtocol is the protocol paired with currentMachine.
C14_ProtocolPairedAfterMachineLine ==
  ( /\ fw.h_read # << >>
    /\ fw.h_read[Len(fw.h_read)][1] = "MACHINE:"
    /\ Arg(fw.h_read[Len(fw.h_read)], 2) \in ProfileNames )
  => fw.currentProtocol = ProtocolOf(fw.currentMachine)

\* C15: once a MACHINE:<profile> line has been processed, currentMachine and
\* currentProtocol stay what the last such line left, whatever lines that
\* match an auto-detection pattern follow.
C15_ExplicitSelectionKept ==
  fw.h_explicit.made
  => /\ fw.currentMachine = fw.h_explicit.machine
     /\ fw.currentProtocol = fw.h_explicit.protocol

C18_PingAnsweredAtOnce ==
  PingIn(fw.h_offered)
  => /\ \E i \in 1..Len(fw.tx) : fw.tx[i] = <<"HOST:", "PONG">>
     /\ fw.lastHostPing = fw.h_loopAt

\* C19: when the line an iteration read carries a numeric field that is not
\* a number, the variable that field is stored in has the value it had
\* when the iteration began.
C19_MalformedFieldKept ==
  \A m \in MalformedLines :
    fw.h_read = <<m.line>> => NumericField(fw, m.field) = fw.h_before[m.field]

\* C20: processing a line that matches no command and no auto-detection
\* pattern leaves every variable of the firmware as it is and adds no
\* output line; an iteration that read only such a line has sent nothing.
C20_UnknownLineIgnored ==
  /\ \A c \in UnknownLines : processLine(fw, c, now) = fw
  /\ (\E c \in UnknownLines : fw.h_read = <<c>>) => fw.tx = << >>

\* An iteration read such a line after the host had armed the pendant and
\* selected a profile
C20_UnknownLineRead ==
  /\ \E c \in UnknownLines : fw.h_read = <<c>>
  /\ fw.hostArmed
  /\ fw.currentMachine = "MACH3"

\* C21: while the host holds the view locked, the release of button 2 after
\* a long press leaves coordView as it is, and some line of the host, read
\* in that state, sets viewLockedByHost back to false.
C21_LockHeldUntilLifted ==
  fw.viewLockedByHost
  => /\ button2Released([fw EXCEPT !.btn2PressTime = now - LONG_PRESS_THRESHOLD], now).coordView
          = fw.coordView
     /\ \E c \in BranchLines : ~processLine(fw, c, now).viewLockedByHost

\* The firmware after it has processed COORD:VIEW,MCS and then COORD:VIEW,WCS
ViewRoundTrip(s, t) ==
  processLine(processLine(s, <<"COORD:", "VIEW,", "MCS">>, t), <<"COORD:", "VIEW,", "WCS">>, t)

\* C22, as stated: from any reachable state, processing COORD:VIEW,MCS and
\* then COORD:VIEW,WCS leaves every variable as it was, except that
\* viewLockedByHost is true.
C22_RoundTrip ==
  ViewRoundTrip(fw, now) = [fw EXCEPT !.viewLockedByHost = TRUE]

\* C22, amended: from any reachable state in which coordView is WCS, the
\* two lines leave every variable as it was, except that viewLockedByHost
\* is true and a redraw of the position readout and of the status bar is
\* requested.
C22_RoundTripFromWCS ==
  fw.coordView = "WCS"
  => ViewRoundTrip(fw, now) = [fw EXCEPT !.viewLockedByHost = TRUE,
                                         !.needsAxisRedraw = TRUE,
                                         !.needsStatusRedraw = TRUE]

\* An iteration read COORD:VIEW,WCS while the view was MCS: the second line
\* of the round trip was processed after the first
C22_RoundTripMade ==
  /\ fw.h_read = << <<"COORD:", "VIEW,", "WCS">> >>
  /\ fw.h_viewWas = "MCS"
  /\ fw.coordView = "WCS"
  /\ fw.viewLockedByHost

\* The selections a button press can change
Selections(s) ==
  <<s.currentAxis, s.currentJogDistance, s.currentSpeed, s.currentFeedRate, s.coordView>>

\* Durations of a short and of a long press
PressDurations == {DEBOUNCE_DELAY + 10, LONG_PRESS_THRESHOLD}

C24_AlertAloneWhilePressed ==
  (fw.h_estopHeld \/ fw.currentEstopState = "PRESSED")
  => /\ fw.screen = [base |-> "ALERT", over |-> {}]
     /\ \A i \in 1..Len(fw.h_drawn) : fw.h_drawn[i] = "ALERT"

\* The last iteration sampled the E-stop input at its released level, which
\* it had held for longer than ESTOP_DEBOUNCE
EstopReleaseSeen ==
  /\ DigitalReadEstop
  /\ ~fw.h_estopSample
  /\ fw.h_loopAt >= estopSince
  /\ Sub32(fw.h_loopAt, estopSince) > ESTOP_DEBOUNCE

\* C25: when the E-stop was held while the help view was shown or the sleep
\* countdown was running and has been released since, currentViewMode is
\* NORMAL, the power state is not COUNTDOWN and the iteration reaches the
\* panel redraws (power ACTIVE, E-stop RELEASED).
C25_OverlayAbandoned ==
  (fw.h_estopOverlay /\ EstopReleaseSeen)
  => /\ fw.currentViewMode = "NORMAL"
     /\ fw.currentPowerState # "COUNTDOWN"
     /\ LoopActive(fw)

\* C26: the power state is SLEEP only when the iterations have sampled the
\* power switch OFF without a break for SLEEP_COUNTDOWN_TIME or longer, and
\* it is ACTIVE after every iteration that sampled the switch ON, whatever
\* it was before.
C26_SleepAfterCountdown ==
  /\ fw.currentPowerState = "SLEEP"
     => (fw.h_offFrom >= 0 /\ fw.h_loopAt - fw.h_offFrom >= SLEEP_COUNTDOWN_TIME)
  /\ fw.h_offFrom < 0 => fw.currentPowerState = "ACTIVE"

\* An iteration that began in SLEEP sampled the switch ON and left ACTIVE
C26_WokenFromSleep ==
  /\ fw.h_powerWas = "SLEEP"
  /\ fw.h_offFrom < 0
  /\ fw.currentPowerState = "ACTIVE"

\* C27: when the iterations have sampled one press of button 1 shorter than
\* LONG_PRESS_THRESHOLD, currentAxis has advanced one step in the cycle
\* Z -> Y -> X -> Z, one AXIS: line was sent, jog distance, speed, feed
\* rate and coordinate view are those of power-up, and three steps of the
\* cycle lead back to the axis they started from.
C27_ShortPressCyclesAxis ==
  /\ \A a \in {"X", "Y", "Z"} : NextAxis(NextAxis(NextAxis(a))) = a
  /\ (fw.h_press1.n = 1 /\ ~fw.h_press1.held /\ fw.h_press1.dur < LONG_PRESS_THRESHOLD)
     => /\ fw.currentAxis = NextAxis(InitFw.currentAxis)
        /\ fw.h_sent.axis = 1
        /\ fw.currentJogDistance = InitFw.currentJogDistance
        /\ fw.currentSpeed = InitFw.currentSpeed
        /\ fw.currentFeedRate = InitFw.currentFeedRate
        /\ fw.coordView = InitFw.coordView

\* C28: after MACHINE:CUTCONTROL and ENCODER:SCALE,5, armed, with a fresh
\* heartbeat and the host idle, when the iterations have consumed a run of
\* 10 ticks in one direction without the safety gate turning one away,
\* handleEncoder has jogged twice, one scaled step each time, on axis Z at
\* the default jog distance, and scaledEncoderPosition is 0.
C28_TenTicksTwoJogs ==
  ( /\ TicksReady(fw)
    /\ ~fw.h_gateDrop
    /\ fw.h_isrCounted = MaxTicks
    /\ fw.encAedges = 0
    /\ Abs(fw.h_rawTotal) = MaxTicks )
  => /\ fw.h_jogCalls = 2
     /\ Abs(fw.h_scaledTotal) = 2
     /\ fw.scaledEncoderPosition = 0
     /\ fw.currentAxis = "Z"
     /\ fw.currentJogDistance = InitFw.currentJogDistance

C30_IdleEdgesDropped ==
  ~(MotionEmitted(fw) /\ fw.h_idleConsumed > 0)

\* The lines of q end with the host having withdrawn its permission: an
\* ARM:DISABLE with no later ARM:ENABLE, or a MOTION:STATE,RUN or HOLD with
\* no later MOTION:STATE,IDLE
PermissionWithdrawn(q) ==
  \E i \in 1..Len(q) :
    \/ /\ q[i] = <<"ARM:", "DISABLE">>
       /\ \A j \in (i + 1)..Len(q) : q[j] # <<"ARM:", "ENABLE">>
    \/ /\ q[i] \in { <<"MOTION:", "STATE,", "RUN">>, <<"MOTION:", "STATE,", "HOLD">> }
       /\ \A j \in (i + 1)..Len(q) : q[j] # <<"MOTION:", "STATE,", "IDLE">>

\* C31: an iteration of loop() that began with an ARM:DISABLE (or a
\* MOTION:STATE,RUN or HOLD) line in the serial input, and no later
\* ARM:ENABLE (MOTION:STATE,IDLE), emits no motion command
C31_NoMotionOnceWithdrawn ==
  PermissionWithdrawn(fw.h_offered) => ~MotionEmitted(fw)

\* C32: while handleBothButtons has sampled both buttons down without a
\* break, it has toggled currentViewMode at most once
C32_OneTogglePerHold ==
  fw.h_helpToggles <= 1

\* C33: an iteration that read a MOTION:STATE line whose state token is none
\* of IDLE, RUN and HOLD while hostMotionState was RUN or HOLD has not set
\* hostMotionState to IDLE
C33_BadStateKeepsBlock ==
  \A c \in BadStateLines :
    (fw.h_read = <<c>> /\ fw.h_motionWas \in {"RUN", "HOLD"})
      => fw.hostMotionState # "IDLE"

ScaleSetSent(s) == \E i \in 1..Len(s.tx) : s.tx[i][1] = "ENCODER_SCALE_SET:"

KeyLinesOf(tx) == SelectSeq(tx, LAMBDA l : l[1] = "KEY:")

\* Every key-down line of tx is followed, as the next KEY line, by the
\* key-up line of the same key
KeysReleased(tx) ==
  LET k == KeyLinesOf(tx)
  IN \A i \in 1..Len(k) :
       k[i][3] = "1" => (i < Len(k) /\ k[i + 1] = <<"KEY:", k[i][2], "0">>)

C37_NoMotionWhileIdle ==
  fw.currentPowerState \in {"COUNTDOWN", "SLEEP"} => ~MotionEmitted(fw)

\* C37 witness: an iteration began and ended in the countdown with an edge
\* pending, the host armed and idle and its heartbeat fresh
C37_GateOpenInCountdown ==
  /\ fw.currentPowerState = "COUNTDOWN"
  /\ fw.h_powerWas = "COUNTDOWN"
  /\ fw.encAedges > 0
  /\ fw.hostArmed
  /\ fw.hostMotionState = "IDLE"
  /\ Sub32(fw.h_loopAt, fw.lastHostPing) <= HOST_TIMEOUT_MS

Drew(s, panel) == \E i \in 1..Len(s.h_drawn) : s.h_drawn[i] = panel

\* C39: an iteration of the active pendant in the normal view that cleared
\* needsAxisRedraw drew the readout, one that cleared needsStatusRedraw drew
\* the status bar, and with no redraw of the readout pending the readout
\* shows the current units and coordinate view
C39_ClearedWhenDrawn ==
  (LoopActive(fw) /\ fw.currentViewMode = "NORMAL") =>
    /\ "AXIS" \in fw.h_cleared => Drew(fw, "POSITION")
    /\ "STATUS" \in fw.h_cleared => Drew(fw, "STATUS")
    /\ (~fw.needsAxisRedraw /\ ~fw.needsFullRedraw) =>
         fw.h_posPanel = [units |-> fw.useImperialUnits, view |-> fw.coordView]

====
